---------------------------- MODULE Spec2Model ----------------------------
(***************************************************************************)
(* Chat client of research-service: the streaming-response session.        *)
(*                                                                         *)
(* Two scripts implement the client: the ChatApp class                     *)
(* (src/client/js/app.js) and the older top-level script                   *)
(* (src/client/index.js).  A page runs one of them; `script` records       *)
(* which.  Text is a sequence of characters, markup a sequence of markup   *)
(* tokens.  The chat window is the sequence of its child message           *)
(* elements; a session is the closure created by one call of               *)
(* streamReplyWebSocket (its WebSocket, botMsg, accumulatedText and the    *)
(* promise it returns).                                                    *)
(*                                                                         *)
(* WebSocket events are delivered as the WebSocket API delivers them:      *)
(* open, or error, out of CONNECTING; message, error or close out of OPEN; *)
(* an error event is always followed by the close event of the same        *)
(* socket and by nothing else; nothing follows a close event.  An await    *)
(* continuation is a microtask: it runs when the handler that settled the  *)
(* promise returns, before any other event, and is part of that step.      *)
(***************************************************************************)
EXTENDS Integers, Sequences, FiniteSets, TLC

VARIABLES
    script,      \* which client script the page runs
    input,       \* input.value of #chat-input
    chatWindow,  \* children of #chat-window, in document order
    sessions,    \* one closure of streamReplyWebSocket per accepted submit
    lastEvent,   \* the handler that ran last (history)
    emitted      \* what the last handler showed or handed to the browser

vars == <<script, input, chatWindow, sessions, lastEvent, emitted>>

----------------------------------------------------------------------------
(* Bounds *)

MaxTurns == 2      \* accepted submits (sessions created)
MaxChunks == 2     \* message events delivered, all sessions together

(* Input alphabet *)

Inputs == { <<" ">>, <<" ", "a", " ">> }
Chunks == { <<" ", "a">>, <<"<">> }

----------------------------------------------------------------------------
(* Text helpers *)

IsSpace(c) == c \in {" ", "\n"}

RECURSIVE TrimStart(_)
TrimStart(t) ==
    IF t # <<>> /\ IsSpace(Head(t)) THEN TrimStart(Tail(t)) ELSE t

RECURSIVE TrimEnd(_)
TrimEnd(t) ==
    IF t # <<>> /\ IsSpace(t[Len(t)])
    THEN TrimEnd(SubSeq(t, 1, Len(t) - 1)) ELSE t

\* String.prototype.trim
Trim(t) == TrimEnd(TrimStart(t))

\* serialization of a text node: "<" is written as the entity
EscapeChar(c) == IF c = "<" THEN "&lt;" ELSE c

EscapeText(t) == [i \in 1..Len(t) |-> EscapeChar(t[i])]

\* DOMPurify.sanitize(marked.parse(text)) on plain text: nothing for blank
\* text, otherwise one paragraph holding the trimmed, escaped text
Render(t) ==
    IF Trim(t) = <<>> THEN <<>>
    ELSE <<"<p>">> \o EscapeText(Trim(t)) \o <<"</p>">>

\* the text appended by the error handler
ErrorNotice == <<"\n", "Error: Connection failed">>

\* the text of the fallback bot message of ChatApp.handleSendMessage
FallbackText == <<"Sorry, I encountered an error. Please try again.">>

----------------------------------------------------------------------------
(* Message elements *)

\* appendMessage(text, "user"): msg.textContent = text
UserMessage(text) ==
    [sender |-> "user", html |-> EscapeText(text),
     copyBtns |-> <<>>, dlBtns |-> 0]

\* document.createElement("div") with classes message, bot: no content yet
EmptyBotMessage ==
    [sender |-> "bot", html |-> <<>>, copyBtns |-> <<>>, dlBtns |-> 0]

\* ChatApp.appendMessage(text, "bot"): rendered text, a copy button
\* holding the text, and a download button
AppendedBotMessage(text) ==
    [sender |-> "bot", html |-> Render(text),
     copyBtns |-> <<text>>, dlBtns |-> 1]

----------------------------------------------------------------------------
(* Sessions *)

\* the closure state right after streamReplyWebSocket returned its promise
NewSession(userText, botMsg) ==
    [userText        |-> userText,
     botMsg          |-> botMsg,        \* index of the element in chatWindow
     accumulatedText |-> <<>>,
     readyState      |-> "CONNECTING",
     sent            |-> <<>>,          \* payloads passed to ws.send
     promise         |-> "pending",
     handler         |-> "awaiting",    \* the send handler awaiting the promise
     events          |-> <<>>,          \* events handled so far (history)
     delivered       |-> <<>>]          \* chunks delivered so far (history)

\* a handler that shows no dialog and offers no file
NoOutput == [alert |-> FALSE, artifacts |-> <<>>, jspdf |-> FALSE]

Has(seq, x) == \E i \in 1..Len(seq) : seq[i] = x

SessionIds == 1..Len(sessions)

\* message events handled so far by the first n sessions
RECURSIVE TotalDelivered(_)
TotalDelivered(n) ==
    IF n = 0 THEN 0
    ELSE Len(sessions[n].delivered) + TotalDelivered(n - 1)

Init ==
    /\ script \in {"app.js", "index.js"}
    /\ input = <<>>
    /\ chatWindow = <<>>
    /\ sessions = <<>>
    /\ lastEvent = "load"
    /\ emitted = NoOutput

----------------------------------------------------------------------------
(* The user edits the input field *)

Type(t) ==
    /\ input' = t
    /\ lastEvent' = "type"
    /\ emitted' = NoOutput
    /\ UNCHANGED <<script, chatWindow, sessions>>

----------------------------------------------------------------------------
(* ChatApp (src/client/js/app.js) *)

\* an update of one session; the others keep their state
SetSession(s, new) == [sessions EXCEPT ![s] = new]

\* an update of the element a session streams into
SetBotMsgLast(s, new) ==
    [chatWindow EXCEPT ![sessions[Len(sessions)].botMsg] = new]
SetBotMsg(s, new) == [chatWindow EXCEPT ![sessions[s].botMsg] = new]

BotMsg(s) == chatWindow[sessions[s].botMsg]

\* this.chatWindow.appendChild(element): the element becomes the last child
PrependChild(children, element) == <<element>> \o children
AppendChild(children, element) == Append(children, element)

\* const text = this.input.value.trim()
SubmittedTextUntrimmed(value) == value
SubmittedText(value) == Trim(value)

\* accumulatedText += event.data
AccumulateOverwrite(accumulatedText, data) == data
Accumulate(accumulatedText, data) == accumulatedText \o data

\* botMsg.innerHTML = sanitize(parse(accumulatedText)): the whole content
\* of the element is replaced by the rendering of the accumulated text
MessageMarkupPatch(oldHtml, accumulatedText, data) == oldHtml \o Render(data)
MessageMarkupDelta(oldHtml, accumulatedText, data) == Render(data)
MessageMarkup(oldHtml, accumulatedText, data) == Render(accumulatedText)

\* botMsg.innerHTML += `\nError: Connection failed`
ReplaceByNotice(oldHtml) == ErrorNotice
AppendNotice(oldHtml) == oldHtml \o ErrorNotice

\* JSON.stringify({ question: userText }) handed to ws.send
SendNothing(sent, userText) == sent
SendQuestion(sent, userText) == Append(sent, [question |-> userText])

\* the event that streamReplyWebSocket may receive next on its socket
CanOpen(s) == sessions[s].readyState = "CONNECTING"
CanMessage(s) ==
    /\ sessions[s].readyState = "OPEN"
    /\ TotalDelivered(Len(sessions)) < MaxChunks
CanError(s) == sessions[s].readyState \in {"CONNECTING", "OPEN"}
CanClose(s) ==
    /\ ~Has(sessions[s].events, "close")
    /\ \/ sessions[s].readyState = "OPEN"
       \/ Has(sessions[s].events, "error")

\* handleSendMessage: trims the input, returns on empty text; otherwise
\* appends the user message, clears the input and calls
\* streamReplyWebSocket, which appends the empty bot element, creates the
\* socket and returns the pending promise the handler awaits
handleSendMessage ==
    /\ script = "app.js"
    /\ SubmittedText(input) = <<>> \/ Len(sessions) < MaxTurns
    /\ LET text == SubmittedText(input) IN
       IF text = <<>>
       THEN /\ lastEvent' = "reject"
            /\ emitted' = NoOutput
            /\ UNCHANGED <<input, chatWindow, sessions>>
       ELSE /\ chatWindow' =
                   AppendChild(AppendChild(chatWindow, UserMessage(text)),
                               EmptyBotMessage)
            /\ input' = <<>>
            /\ sessions' =
                   Append(sessions, NewSession(text, Len(chatWindow) + 2))
            /\ lastEvent' = "submit"
            /\ emitted' = NoOutput
    /\ UNCHANGED script

\* ws.onopen
OnOpen(s) ==
    /\ script = "app.js"
    /\ CanOpen(s)
    /\ sessions' = SetSession(s,
           [sessions[s] EXCEPT
               !.readyState = "OPEN",
               !.sent = SendQuestion(@, sessions[s].userText),
               !.events = Append(@, "open")])
    /\ lastEvent' = "event"
    /\ emitted' = NoOutput
    /\ UNCHANGED <<script, input, chatWindow>>

\* ws.onmessage: assigning innerHTML also removes every child element
\* (buttons) the message had
OnMessage(s, data) ==
    /\ script = "app.js"
    /\ CanMessage(s)
    /\ LET acc == Accumulate(sessions[s].accumulatedText, data) IN
       /\ sessions' = SetSession(s,
              [sessions[s] EXCEPT
                  !.accumulatedText = acc,
                  !.events = Append(@, "message"),
                  !.delivered = Append(@, data)])
       /\ chatWindow' = SetBotMsg(s,
              [BotMsg(s) EXCEPT
                  !.html = MessageMarkup(@, acc, data),
                  !.copyBtns = <<>>,
                  !.dlBtns = 0])
    /\ lastEvent' = "event"
    /\ emitted' = NoOutput
    /\ UNCHANGED <<script, input>>

OnErrorRetry(s) ==
    /\ script = "app.js"
    /\ CanError(s)
    /\ sessions' = SetSession(s,
           [sessions[s] EXCEPT
               !.readyState = "CONNECTING",
               !.events = Append(@, "error")])
    /\ chatWindow' = SetBotMsg(s,
           [BotMsg(s) EXCEPT !.html = AppendNotice(@)])
    /\ lastEvent' = "event"
    /\ emitted' = NoOutput
    /\ UNCHANGED <<script, input>>

\* ws.onerror: appends the notice and rejects the promise; the rejection
\* resumes handleSendMessage in its catch block, which appends the
\* fallback bot message and returns
OnError(s) ==
    /\ script = "app.js"
    /\ CanError(s)
    /\ LET settles == sessions[s].promise = "pending"
           noticed == SetBotMsg(s,
               [BotMsg(s) EXCEPT !.html = AppendNotice(@)])
       IN
       /\ sessions' = SetSession(s,
              [sessions[s] EXCEPT
                  !.readyState = "CLOSED",
                  !.promise = IF settles THEN "rejected" ELSE @,
                  !.handler = IF settles THEN "returned" ELSE @,
                  !.events = Append(@, "error")])
       /\ chatWindow' =
              IF settles
              THEN AppendChild(noticed, AppendedBotMessage(FallbackText))
              ELSE noticed
    /\ lastEvent' = "event"
    /\ emitted' = NoOutput
    /\ UNCHANGED <<script, input>>

OnCloseRerender(s) ==
    /\ script = "app.js"
    /\ CanClose(s)
    /\ LET settles == sessions[s].promise = "pending" IN
       sessions' = SetSession(s,
              [sessions[s] EXCEPT
                  !.readyState = "CLOSED",
                  !.promise = IF settles THEN "resolved" ELSE @,
                  !.handler = IF settles THEN "returned" ELSE @,
                  !.events = Append(@, "close")])
    /\ chatWindow' = SetBotMsg(s,
           [BotMsg(s) EXCEPT
               !.html = Render(sessions[s].accumulatedText),
               !.copyBtns = <<sessions[s].accumulatedText>>])
    /\ lastEvent' = "event"
    /\ emitted' = NoOutput
    /\ UNCHANGED <<script, input>>

\* ws.onclose: adds the copy button holding the accumulated text and
\* resolves the promise; resolving a settled promise does nothing, a
\* pending one resumes handleSendMessage, which returns
OnClose(s) ==
    /\ script = "app.js"
    /\ CanClose(s)
    /\ LET settles == sessions[s].promise = "pending" IN
       sessions' = SetSession(s,
              [sessions[s] EXCEPT
                  !.readyState = "CLOSED",
                  !.promise = IF settles THEN "resolved" ELSE @,
                  !.handler = IF settles THEN "returned" ELSE @,
                  !.events = Append(@, "close")])
    /\ chatWindow' = SetBotMsg(s,
           [BotMsg(s) EXCEPT
               !.copyBtns = Append(@, sessions[s].accumulatedText)])
    /\ lastEvent' = "event"
    /\ emitted' = NoOutput
    /\ UNCHANGED <<script, input>>

----------------------------------------------------------------------------
(* The top-level script (src/client/index.js) *)

\* purifyHTML(marked.parse(accumulatedText)) with DOMPurify loaded
IdxMessageMarkup(oldHtml, accumulatedText, data) == Render(accumulatedText)

\* the click handler of the send button: as handleSendMessage, but the
\* await is not inside a try block
IdxClick ==
    /\ script = "index.js"
    /\ Trim(input) = <<>> \/ Len(sessions) < MaxTurns
    /\ LET text == Trim(input) IN
       IF text = <<>>
       THEN /\ lastEvent' = "reject"
            /\ emitted' = NoOutput
            /\ UNCHANGED <<input, chatWindow, sessions>>
       ELSE /\ chatWindow' =
                   AppendChild(AppendChild(chatWindow, UserMessage(text)),
                               EmptyBotMessage)
            /\ input' = <<>>
            /\ sessions' =
                   Append(sessions, NewSession(text, Len(chatWindow) + 2))
            /\ lastEvent' = "submit"
            /\ emitted' = NoOutput
    /\ UNCHANGED script

\* ws.onopen
IdxOnOpen(s) ==
    /\ script = "index.js"
    /\ CanOpen(s)
    /\ sessions' = SetSession(s,
           [sessions[s] EXCEPT
               !.readyState = "OPEN",
               !.sent = Append(@, [question |-> sessions[s].userText]),
               !.events = Append(@, "open")])
    /\ lastEvent' = "event"
    /\ emitted' = NoOutput
    /\ UNCHANGED <<script, input, chatWindow>>

\* ws.onmessage
IdxOnMessage(s, data) ==
    /\ script = "index.js"
    /\ CanMessage(s)
    /\ LET acc == sessions[s].accumulatedText \o data IN
       /\ sessions' = SetSession(s,
              [sessions[s] EXCEPT
                  !.accumulatedText = acc,
                  !.events = Append(@, "message"),
                  !.delivered = Append(@, data)])
       /\ chatWindow' = SetBotMsg(s,
              [BotMsg(s) EXCEPT
                  !.html = IdxMessageMarkup(@, acc, data),
                  !.copyBtns = <<>>,
                  !.dlBtns = 0])
    /\ lastEvent' = "event"
    /\ emitted' = NoOutput
    /\ UNCHANGED <<script, input>>

\* ws.onerror: appends the notice; the promise is left alone
IdxOnError(s) ==
    /\ script = "index.js"
    /\ CanError(s)
    /\ sessions' = SetSession(s,
           [sessions[s] EXCEPT
               !.readyState = "CLOSED",
               !.events = Append(@, "error")])
    /\ chatWindow' = SetBotMsg(s,
           [BotMsg(s) EXCEPT !.html = @ \o ErrorNotice])
    /\ lastEvent' = "event"
    /\ emitted' = NoOutput
    /\ UNCHANGED <<script, input>>

\* ws.onclose (the handler assigned inside the promise executor, which
\* replaces the earlier one): code-block copy buttons, then resolve()
IdxOnCloseNoResolve(s) ==
    /\ script = "index.js"
    /\ CanClose(s)
    /\ sessions' = SetSession(s,
           [sessions[s] EXCEPT
               !.readyState = "CLOSED",
               !.events = Append(@, "close")])
    /\ lastEvent' = "event"
    /\ emitted' = NoOutput
    /\ UNCHANGED <<script, input, chatWindow>>
IdxOnClose(s) ==
    /\ script = "index.js"
    /\ CanClose(s)
    /\ LET settles == sessions[s].promise = "pending" IN
       sessions' = SetSession(s,
              [sessions[s] EXCEPT
                  !.readyState = "CLOSED",
                  !.promise = IF settles THEN "resolved" ELSE @,
                  !.handler = IF settles THEN "returned" ELSE @,
                  !.events = Append(@, "close")])
    /\ lastEvent' = "event"
    /\ emitted' = NoOutput
    /\ UNCHANGED <<script, input, chatWindow>>

----------------------------------------------------------------------------
(* Content exporter of ChatApp (src/client/js/app.js) *)

\* The markers as they stand in the text content of a message.  A reply
\* carries the tag pair as entities, which the renderer keeps as text.
EssayOpen == "<essay>"
EssayClose == "</essay>"
EssayMarker == "Generating comprehensive essay.."
EssayOpenRaw == "&lt;essay&gt;"
EssayCloseRaw == "&lt;/essay&gt;"

\* labels of the buttons, which are part of the text content of a message
CopyLabel == "Copy"
DownloadLabel == "Click to Download Essay"

\* essayContent += ... + '\n\n'
BlankLine == <<"\n", "\n">>

\* the text a markup token contributes to textContent: tags nothing,
\* entities the character they stand for
IsTag(tok) == tok \in {"<p>", "</p>"}

TextOfToken(tok) ==
    CASE tok = "&lt;"        -> "<"
      [] tok = EssayOpenRaw  -> EssayOpen
      [] tok = EssayCloseRaw -> EssayClose
      [] OTHER               -> tok

\* the text nodes of the markup: tags dropped, entities decoded
TextOfMarkup(html) ==
    LET nodes == SelectSeq(html, LAMBDA tok : ~IsTag(tok))
    IN [i \in 1..Len(nodes) |-> TextOfToken(nodes[i])]

\* message.textContent: the text of the markup, then of the child buttons
TextContent(msg) ==
    TextOfMarkup(msg.html)
       \o [i \in 1..Len(msg.copyBtns) |-> CopyLabel]
       \o [i \in 1..msg.dlBtns |-> DownloadLabel]

Min(S) == CHOOSE x \in S : \A y \in S : x <= y

\* text.indexOf(token), 0 when absent
IndexOf(text, tok) ==
    IF Has(text, tok) THEN Min({i \in 1..Len(text) : text[i] = tok}) ELSE 0

\* text.match(/<essay>(.*?)<\/essay>/s): the leftmost start tag that has
\* an end tag after it, up to the nearest such end tag; group 1 is the
\* text in between
EssayMatch(text) ==
    LET starts == {i \in 1..Len(text) :
                      /\ text[i] = EssayOpen
                      /\ \E j \in (i + 1)..Len(text) : text[j] = EssayClose}
    IN IF starts = {} THEN [found |-> FALSE, group |-> <<>>]
       ELSE LET i == Min(starts)
                j == Min({k \in (i + 1)..Len(text) : text[k] = EssayClose})
            IN [found |-> TRUE, group |-> SubSeq(text, i + 1, j - 1)]

\* the body of the forEach callback: what one message adds to essayContent
MessageEssayNoFallback(text) ==
    LET m == EssayMatch(text) IN
    IF m.found /\ m.group # <<>> THEN Trim(m.group) \o BlankLine ELSE <<>>
MessageEssay(text) ==
    LET m == EssayMatch(text) IN
    IF m.found /\ m.group # <<>>
    THEN Trim(m.group) \o BlankLine
    ELSE LET k == IndexOf(text, EssayMarker) IN
         IF k # 0
         THEN LET essayText == Trim(SubSeq(text, k + 1, Len(text))) IN
              IF essayText # <<>> THEN essayText \o BlankLine ELSE <<>>
         ELSE <<>>

\* querySelectorAll('.message.bot'): every bot element, in document order
BotMessages(children) == SelectSeq(children, LAMBDA m : m.sender = "bot")

RECURSIVE EssayOfMessages(_)
EssayOfMessages(messages) ==
    IF messages = <<>> THEN <<>>
    ELSE MessageEssay(TextContent(Head(messages)))
            \o EssayOfMessages(Tail(messages))

\* extractEssayContent
ExtractEssayContent(children) == Trim(EssayOfMessages(BotMessages(children)))

\* downloadTextFile: a Blob of the content offered under the file name
DownloadTextFile(content, filename) ==
    [type |-> "text/plain", filename |-> filename, content |-> content]

\* generatePDF: a document saved through jsPDF when the library is loaded,
\* otherwise the text file
GeneratePDFNoFallback(content, jspdfLoaded) ==
    IF jspdfLoaded
    THEN <<[type |-> "application/pdf", filename |-> "essay.pdf",
            content |-> content]>>
    ELSE <<>>
GeneratePDF(content, jspdfLoaded) ==
    IF jspdfLoaded
    THEN <<[type |-> "application/pdf", filename |-> "essay.pdf",
            content |-> content]>>
    ELSE <<DownloadTextFile(content, "essay.txt")>>

\* handleDownloadEssay: the alert and return on empty content, otherwise
\* the export
DownloadOutputNoReturn(essayContent, jspdfLoaded) ==
    [alert |-> essayContent = <<>>,
     artifacts |-> GeneratePDF(essayContent, jspdfLoaded),
     jspdf |-> jspdfLoaded]
DownloadOutput(essayContent, jspdfLoaded) ==
    IF essayContent = <<>>
    THEN [alert |-> TRUE, artifacts |-> <<>>, jspdf |-> jspdfLoaded]
    ELSE [alert |-> FALSE,
          artifacts |-> GeneratePDF(essayContent, jspdfLoaded),
          jspdf |-> jspdfLoaded]

\* a click on the download button; whether jsPDF is loaded is looked up
\* at the time of the call.  The link element that downloadTextFile
\* creates is added to and removed from document.body, not the chat window
handleDownloadEssayLinkInLog ==
    /\ script = "app.js"
    /\ \E essayContent \in {ExtractEssayContent(chatWindow)} :
          \E jspdfLoaded \in BOOLEAN :
             /\ emitted' = DownloadOutput(essayContent, jspdfLoaded)
             /\ chatWindow' =
                   IF emitted'.artifacts # <<>> /\ ~jspdfLoaded
                   THEN AppendChild(chatWindow,
                           [sender |-> "link", html |-> <<>>,
                            copyBtns |-> <<>>, dlBtns |-> 0])
                   ELSE chatWindow
    /\ lastEvent' = "download"
    /\ UNCHANGED <<script, input, sessions>>
handleDownloadEssay ==
    /\ script = "app.js"
    /\ \E essayContent \in {ExtractEssayContent(chatWindow)} :
          \E jspdfLoaded \in BOOLEAN :
             emitted' = DownloadOutput(essayContent, jspdfLoaded)
    /\ lastEvent' = "download"
    /\ UNCHANGED <<script, input, chatWindow, sessions>>

----------------------------------------------------------------------------
(* Specification *)

Next ==
    \/ \E t \in Inputs : Type(t)
    \/ handleSendMessage
    \/ \E s \in SessionIds : OnOpen(s)
    \/ \E s \in SessionIds : \E data \in Chunks : OnMessage(s, data)
    \/ \E s \in SessionIds : OnError(s)
    \/ \E s \in SessionIds : OnClose(s)
    \/ IdxClick
    \/ \E s \in SessionIds : IdxOnOpen(s)
    \/ \E s \in SessionIds : \E data \in Chunks : IdxOnMessage(s, data)
    \/ \E s \in SessionIds : IdxOnError(s)
    \/ \E s \in SessionIds : IdxOnClose(s)

Spec == Init /\ [][Next]_vars

\* The remote side ends every channel: the socket of a session that has
\* not handled its close event delivers an error or a close event, and
\* after an error the close event that the WebSocket API fires with it
Finish(s) ==
    /\ s \in SessionIds
    /\ OnError(s) \/ OnClose(s) \/ IdxOnError(s) \/ IdxOnClose(s)

\* both scripts with one question and one chunk text
NextLive ==
    \/ Type(<<" ", "a", " ">>)
    \/ handleSendMessage
    \/ \E s \in SessionIds : OnOpen(s)
    \/ \E s \in SessionIds : OnMessage(s, <<" ", "a">>)
    \/ \E s \in SessionIds : OnError(s)
    \/ \E s \in SessionIds : OnClose(s)
    \/ IdxClick
    \/ \E s \in SessionIds : IdxOnOpen(s)
    \/ \E s \in SessionIds : IdxOnMessage(s, <<" ", "a">>)
    \/ \E s \in SessionIds : IdxOnError(s)
    \/ \E s \in SessionIds : IdxOnClose(s)

SpecLive ==
    /\ Init
    /\ [][NextLive]_vars
    /\ \A s \in 1..MaxTurns : WF_vars(Finish(s))

\* ChatApp with replies that carry the export markers, and the download
\* button
Question == <<" ", "a", " ">>

EssayChunks ==
    { <<EssayOpenRaw, "a", " ", EssayCloseRaw>>,
      <<EssayOpenRaw, EssayCloseRaw, EssayMarker, " ", "a">> }

InitExport ==
    /\ Init
    /\ script = "app.js"

NextExport ==
    \/ Type(Question)
    \/ handleSendMessage
    \/ \E s \in SessionIds : OnOpen(s)
    \/ \E s \in SessionIds : \E data \in EssayChunks : OnMessage(s, data)
    \/ \E s \in SessionIds : OnError(s)
    \/ \E s \in SessionIds : OnClose(s)
    \/ handleDownloadEssay

SpecExport == InitExport /\ [][NextExport]_vars

----------------------------------------------------------------------------
(* Derived notions *)

RECURSIVE Flatten(_)
Flatten(chunks) ==
    IF chunks = <<>> THEN <<>> ELSE Head(chunks) \o Flatten(Tail(chunks))

Errored(s) == Has(sessions[s].events, "error")
Closed(s) == Has(sessions[s].events, "close")
Terminal(s) == Errored(s) \/ Closed(s)
Active(s) == ~Terminal(s)

TypeOK ==
    /\ script \in {"app.js", "index.js"}
    /\ input \in Inputs \cup {<<>>}
    /\ Len(sessions) <= MaxTurns
    /\ \A s \in SessionIds :
          /\ sessions[s].botMsg \in 1..Len(chatWindow)
          /\ chatWindow[sessions[s].botMsg].sender = "bot"
          /\ sessions[s].readyState \in {"CONNECTING", "OPEN", "CLOSED"}
          /\ sessions[s].promise \in {"pending", "resolved", "rejected"}

----------------------------------------------------------------------------
(* Properties *)

IsBlank(t) == \A i \in 1..Len(t) : t[i] = " "

SubmitStep == lastEvent' \in {"reject", "submit"}

\* C1: every accepted submit appends exactly one user message followed by
\* exactly one bot message and nothing else for its turn, however the
\* channel ends: the chat window is the sequence user, bot, user, bot, ...
\* with one pair per accepted submit.
C1_OneUserOneBotPerTurn ==
    /\ Len(chatWindow) = 2 * Len(sessions)
    /\ \A s \in SessionIds :
          /\ sessions[s].botMsg = 2 * s
          /\ chatWindow[2 * s - 1].sender = "user"
          /\ chatWindow[2 * s].sender = "bot"

\* C2: a send with an empty or whitespace-only input field changes
\* nothing: no message, no session (hence no channel), and the input
\* field keeps its content.
C2_BlankSubmitIsNoOp ==
    [][(SubmitStep /\ IsBlank(input))
          => UNCHANGED <<input, chatWindow, sessions>>]_vars

C2_Witness ==
    /\ lastEvent = "reject"
    /\ input = <<" ">>

\* C3: after every chunk the accumulated text of a session is the
\* concatenation, in wire order, of the chunks delivered to it so far, and
\* the text handed to the completion controls on close is that
\* concatenation.
C3_AccumulatedIsConcatenation ==
    \A s \in SessionIds :
       /\ sessions[s].accumulatedText = Flatten(sessions[s].delivered)
       /\ \A i \in 1..Len(BotMsg(s).copyBtns) :
             BotMsg(s).copyBtns[i] = Flatten(sessions[s].delivered)

C3_Witness ==
    \E s \in SessionIds :
       /\ Closed(s)
       /\ sessions[s].delivered = << <<" ", "a">>, <<"<">> >>
       /\ sessions[s].accumulatedText = <<" ", "a", "<">>
       /\ BotMsg(s).copyBtns = << <<" ", "a", "<">> >>

\* C4: a session is finalized (its promise settled and, in ChatApp, the
\* completion controls attached to its message) exactly when it is in a
\* terminal state: from the moment it enters closed or errored, not
\* before, and only once.
C4_FinalizedOnceOnTerminal ==
    \A s \in SessionIds :
       /\ Terminal(s) <=> sessions[s].promise # "pending"
       /\ script = "app.js" =>
             /\ Terminal(s) => Len(BotMsg(s).copyBtns) = 1
             /\ ~Terminal(s) => Len(BotMsg(s).copyBtns) = 0

\* C5: once a session is closed or errored, no later step changes its
\* bot message (markup or attached controls).
C5_FrozenAfterTerminal ==
    [][\A s \in SessionIds :
          Terminal(s) =>
             chatWindow'[sessions[s].botMsg] = chatWindow[sessions[s].botMsg]
      ]_vars

\* C6: the request payload {question: text} is sent exactly once per
\* session, by the open handler: nothing is sent while no open event was
\* handled, one payload is sent from then on, and every chunk is processed
\* after it.
C6_QuestionSentOnceOnOpen ==
    \A s \in SessionIds :
       /\ Len(sessions[s].sent) <= 1
       /\ Len(sessions[s].sent) = 1 <=> Has(sessions[s].events, "open")
       /\ sessions[s].delivered # <<>> =>
             sessions[s].sent = <<[question |-> sessions[s].userText]>>

C6_Witness ==
    \E s \in SessionIds :
       /\ Closed(s)
       /\ Len(sessions[s].delivered) = 2
       /\ sessions[s].sent = <<[question |-> <<"a">>]>>

\* C7: a transport failure never reaches the controller as a failure: the
\* promise the send handler awaits is never rejected.
C7_FailureStaysInSession ==
    \A s \in SessionIds : sessions[s].promise # "rejected"

\* C8: the step that handles a transport failure appends the non-empty
\* error notice after the markup rendered from the chunks received so far
\* and keeps that markup unchanged.
C8_NoticeAppendedOnError ==
    [][\A s \in SessionIds :
          (~Errored(s) /\ Has(sessions'[s].events, "error")) =>
             /\ ErrorNotice # <<>>
             /\ chatWindow[sessions[s].botMsg].html =
                   Render(sessions[s].accumulatedText)
             /\ chatWindow'[sessions[s].botMsg].html =
                   chatWindow[sessions[s].botMsg].html \o ErrorNotice
      ]_vars

C8_Witness ==
    /\ \E s \in SessionIds :
          /\ sessions[s].events = <<"open", "error">>
          /\ BotMsg(s).html = ErrorNotice
    /\ \E s \in SessionIds :
          /\ Errored(s)
          /\ sessions[s].delivered # <<>>
          /\ BotMsg(s).html =
                <<"<p>", "a", "</p>">> \o ErrorNotice

\* C9: at most one session is active (not yet closed or errored) at any
\* time.
C9_AtMostOneActive ==
    Cardinality({s \in SessionIds : Active(s)}) <= 1

\* C10 (as stated): the markup of every bot message is the rendering of
\* its current raw text, in every state.
C10_MarkupIsRenderOfRawText ==
    \A s \in SessionIds :
       BotMsg(s).html = Render(sessions[s].accumulatedText)

\* C10 (amended): the markup of a session's bot message is the rendering
\* of the accumulated text, followed by the error notice once an error
\* event has been handled.
C10_MarkupIsRenderThenNotice ==
    \A s \in SessionIds :
       BotMsg(s).html =
          Render(sessions[s].accumulatedText)
             \o (IF Errored(s) THEN ErrorNotice ELSE <<>>)

C10_Witness ==
    \E s \in SessionIds :
       /\ Errored(s) /\ Closed(s)
       /\ Len(sessions[s].delivered) = 2
       /\ BotMsg(s).html =
             Render(sessions[s].accumulatedText) \o ErrorNotice

\* C11: the chat window is append-only: every step keeps the messages it
\* had, in the same places (same sender; a user message keeps its content),
\* and only adds messages at the end; and in every state each session's
\* bot message directly follows the user message of its own turn.
C11_AppendOnlyLog ==
    [][/\ Len(chatWindow') >= Len(chatWindow)
       /\ \A i \in 1..Len(chatWindow) :
             /\ chatWindow'[i].sender = chatWindow[i].sender
             /\ chatWindow[i].sender = "user" =>
                   chatWindow'[i] = chatWindow[i]
       /\ \A s \in 1..Len(sessions') :
             /\ sessions'[s].botMsg > 1
             /\ chatWindow'[sessions'[s].botMsg].sender = "bot"
             /\ chatWindow'[sessions'[s].botMsg - 1] =
                   UserMessage(sessions'[s].userText)
             /\ s \in SessionIds => sessions'[s].botMsg = sessions[s].botMsg
      ]_vars

\* two overlapping turns, the first one failed: user, bot, user, bot and
\* the fallback message at the end
C11_Witness ==
    /\ script = "app.js"
    /\ Len(sessions) = 2
    /\ Len(chatWindow) = 5
    /\ sessions[1].events = <<"open", "message", "error", "close">>
    /\ sessions[2].events = <<"open", "message">>
    /\ chatWindow[5].html = Render(FallbackText)

\* C12: a bot message carries exactly one copy control and one download
\* control once its session is finalized (closed or errored), and none
\* before.
C12_ControlsOnFinalized ==
    \A s \in SessionIds :
       /\ Terminal(s) =>
             /\ Len(BotMsg(s).copyBtns) = 1
             /\ BotMsg(s).dlBtns = 1
       /\ ~Terminal(s) =>
             /\ Len(BotMsg(s).copyBtns) = 0
             /\ BotMsg(s).dlBtns = 0

\* the text the last download request extracted, read off what it showed
\* or offered
Downloaded == lastEvent = "download"

Extracted ==
    IF emitted.artifacts = <<>> THEN <<>> ELSE emitted.artifacts[1].content

RECURSIVE TextsOf(_)
TextsOf(messages) ==
    IF messages = <<>> THEN <<>>
    ELSE <<TextContent(Head(messages))>> \o TextsOf(Tail(messages))

\* the text content of the bot messages of the chat window, in order
BotTexts == TextsOf(BotMessages(chatWindow))

HasPair(text) == EssayMatch(text).found
PairContent(text) == Trim(EssayMatch(text).group)
HasMarker(text) == Has(text, EssayMarker)

\* the trimmed text after the first literal marker, with its blank line
AfterMarker(text) ==
    LET rest == Trim(SubSeq(text, IndexOf(text, EssayMarker) + 1, Len(text)))
    IN IF HasMarker(text) /\ rest # <<>> THEN rest \o BlankLine ELSE <<>>

\* what a message contributes according to C13 as stated: the pair
\* content whenever it has a pair, the fallback only without a pair
StatedContribution(text) ==
    IF HasPair(text)
    THEN IF PairContent(text) # <<>>
         THEN PairContent(text) \o BlankLine ELSE <<>>
    ELSE AfterMarker(text)

\* what a message contributes according to C13 as amended: the pair
\* content when the first pair is not empty, otherwise the fallback
AmendedContribution(text) ==
    IF HasPair(text) /\ EssayMatch(text).group # <<>>
    THEN PairContent(text) \o BlankLine
    ELSE AfterMarker(text)

RECURSIVE StatedEssay(_)
StatedEssay(texts) ==
    IF texts = <<>> THEN <<>>
    ELSE StatedContribution(Head(texts)) \o StatedEssay(Tail(texts))

RECURSIVE AmendedEssay(_)
AmendedEssay(texts) ==
    IF texts = <<>> THEN <<>>
    ELSE AmendedContribution(Head(texts)) \o AmendedEssay(Tail(texts))

\* C13 (as stated): extract returns empty text when no bot message has a
\* marker pair or the literal marker; the trimmed pair content when exactly
\* one message matches and it has a pair; and in general the trimmed
\* matches in insertion order separated by a blank line, where a message
\* with a pair contributes its pair content and never the fallback.
C13_ExtractAsStated ==
    Downloaded =>
       LET texts == BotTexts
           paired == {i \in 1..Len(texts) : HasPair(texts[i])}
           matching == {i \in 1..Len(texts) :
                           HasPair(texts[i]) \/ HasMarker(texts[i])}
       IN /\ matching = {} => Extracted = <<>>
          /\ \A i \in paired :
                matching = {i} => Extracted = PairContent(texts[i])
          /\ Extracted = Trim(StatedEssay(texts))

\* C13 (amended): as stated, except that a message whose first pair has
\* empty content counts as a message without a pair: it contributes the
\* text after its literal marker, if it has one.
C13_ExtractAmended ==
    Downloaded =>
       LET texts == BotTexts
           paired == {i \in 1..Len(texts) :
                         /\ HasPair(texts[i])
                         /\ EssayMatch(texts[i]).group # <<>>}
           matching == {i \in 1..Len(texts) :
                           HasPair(texts[i]) \/ HasMarker(texts[i])}
       IN /\ matching = {} => Extracted = <<>>
          /\ \A i \in paired :
                matching = {i} => Extracted = PairContent(texts[i])
          /\ Extracted = Trim(AmendedEssay(texts))

\* two replies match, the first through its pair, the second through the
\* literal marker behind an empty pair
C13_Witness ==
    /\ Downloaded
    /\ Len(sessions) = 2
    /\ sessions[1].accumulatedText = <<EssayOpenRaw, "a", " ", EssayCloseRaw>>
    /\ sessions[2].accumulatedText =
          <<EssayOpenRaw, EssayCloseRaw, EssayMarker, " ", "a">>
    /\ ~Terminal(2)
    /\ Extracted = <<"a", "\n", "\n", "a">>

\* C14: a download request whose extraction is not empty offers exactly
\* one file with the extracted text: the PDF document when jsPDF is loaded
\* at the time of the call, the plain-text file otherwise.
C14_ExportAlwaysOneArtifact ==
    Downloaded =>
       LET essayContent == ExtractEssayContent(chatWindow)
       IN essayContent # <<>> =>
             /\ Len(emitted.artifacts) = 1
             /\ emitted.artifacts[1].content = essayContent
             /\ emitted.artifacts[1].type =
                   IF emitted.jspdf THEN "application/pdf" ELSE "text/plain"

C14_Witness ==
    /\ Downloaded
    /\ ~emitted.jspdf
    /\ emitted.artifacts =
          <<[type |-> "text/plain", filename |-> "essay.txt",
             content |-> <<"a">>]>>

Noticed(html) ==
    /\ Len(html) >= Len(ErrorNotice)
    /\ SubSeq(html, Len(html) - Len(ErrorNotice) + 1, Len(html)) = ErrorNotice

ChannelStateOf(session, html) ==
    IF Noticed(html) \/ session.promise = "rejected" THEN "errored"
    ELSE IF session.promise = "resolved" THEN "closed"
    ELSE IF session.accumulatedText # <<>> THEN "streaming"
    ELSE IF session.sent # <<>> THEN "open"
    ELSE "connecting"

ChannelState(s) == ChannelStateOf(sessions[s], BotMsg(s).html)

Transitions ==
    { <<"connecting", "open">>, <<"open", "streaming">>,
      <<"streaming", "streaming">>,
      <<"connecting", "errored">>, <<"open", "errored">>,
      <<"streaming", "errored">>,
      <<"open", "closed">>, <<"streaming", "closed">> }

\* C16: a session starts connecting; every step leaves its channel state
\* alone or takes one transition of the state machine, so closed and
\* errored are never left; and the accumulated text changes only in a
\* step from open or streaming to streaming.
C16_StateMachine ==
    [][/\ \A s \in SessionIds :
             LET before == ChannelState(s)
                 after == ChannelStateOf(sessions'[s],
                             chatWindow'[sessions'[s].botMsg].html)
             IN /\ before = after \/ <<before, after>> \in Transitions
                /\ sessions'[s].accumulatedText # sessions[s].accumulatedText
                      => /\ before \in {"open", "streaming"}
                         /\ after = "streaming"
       /\ \A s \in 1..Len(sessions') :
             s \notin SessionIds =>
                ChannelStateOf(sessions'[s],
                   chatWindow'[sessions'[s].botMsg].html) = "connecting"
      ]_vars

\* a session that errored while streaming and has handled the close event
\* that follows, next to one that closed normally
C16_Witness ==
    /\ Len(sessions) = 2
    /\ sessions[1].events = <<"open", "message", "error", "close">>
    /\ ChannelState(1) = "errored"
    /\ sessions[2].events = <<"open", "message", "close">>
    /\ ChannelState(2) = "closed"

\* C17: the step that handles a chunk sets the markup of the bot message
\* to the rendering of the whole text delivered so far, so the markup
\* after a chunk depends on the concatenation only: sessions that have
\* received the same text and no error show the same markup.
C17_FullRerender ==
    [][/\ \A s \in SessionIds :
             Len(sessions'[s].delivered) > Len(sessions[s].delivered) =>
                chatWindow'[sessions[s].botMsg].html =
                   Render(Flatten(sessions'[s].delivered))
       /\ \A s \in 1..Len(sessions') : \A t \in 1..Len(sessions') :
             (/\ Flatten(sessions'[s].delivered)
                    = Flatten(sessions'[t].delivered)
              /\ ~Has(sessions'[s].events, "error")
              /\ ~Has(sessions'[t].events, "error"))
                => chatWindow'[sessions'[s].botMsg].html
                      = chatWindow'[sessions'[t].botMsg].html
      ]_vars

\* after the second chunk the markup is one paragraph with the whole text,
\* not the first paragraph followed by a second one
C17_Witness ==
    \E s \in SessionIds :
       /\ lastEvent = "event"
       /\ sessions[s].events = <<"open", "message", "message">>
       /\ sessions[s].delivered = << <<" ", "a">>, <<" ", "a">> >>
       /\ BotMsg(s).html = <<"<p>", "a", " ", "a", "</p>">>

\* the bot messages of the chat window a completed-only scan would read:
\* those not streamed by a session, and those whose session closed
\* without an error
Completed(i) ==
    /\ chatWindow[i].sender = "bot"
    /\ \A s \in SessionIds :
          sessions[s].botMsg = i => Closed(s) /\ ~Errored(s)

RECURSIVE CompletedUpTo(_)
CompletedUpTo(n) ==
    IF n = 0 THEN <<>>
    ELSE IF Completed(n) THEN Append(CompletedUpTo(n - 1), chatWindow[n])
    ELSE CompletedUpTo(n - 1)

\* C18: a download request extracts from completed bot messages only: a
\* message still pending or streaming, or one that ended errored, adds
\* nothing to the extracted text.
C18_OnlyCompletedScanned ==
    Downloaded =>
       Extracted = ExtractEssayContent(CompletedUpTo(Len(chatWindow)))

\* C19: a session has one socket, which is never reopened: once closed it
\* stays closed, it never goes back to connecting, it is closed only by
\* an error or close event of its own channel, and a new session (with a
\* new connecting socket) appears only through an accepted submit, which
\* leaves the earlier sessions as they are.
C19_OneChannelNoRetry ==
    [][/\ \A s \in SessionIds :
             /\ s \in 1..Len(sessions')
             /\ sessions[s].readyState = "CLOSED" =>
                   sessions'[s].readyState = "CLOSED"
             /\ sessions[s].readyState = "OPEN" =>
                   sessions'[s].readyState # "CONNECTING"
             /\ Terminal(s) => sessions'[s].readyState = "CLOSED"
             /\ (sessions[s].readyState # "CLOSED"
                   /\ sessions'[s].readyState = "CLOSED") =>
                   \E e \in {"error", "close"} :
                      sessions'[s].events = Append(sessions[s].events, e)
       /\ Len(sessions') # Len(sessions) =>
             /\ lastEvent' = "submit"
             /\ Len(sessions') = Len(sessions) + 1
             /\ sessions'[Len(sessions')].readyState = "CONNECTING"
             /\ \A s \in SessionIds : sessions'[s] = sessions[s]
      ]_vars

\* a second turn started after the first session finished: the finished
\* session keeps its closed socket, the new one has its own
C19_Witness ==
    /\ Len(sessions) = 2
    /\ sessions[1].events = <<"open", "message", "close">>
    /\ sessions[1].readyState = "CLOSED"
    /\ sessions[2].readyState = "OPEN"
    /\ sessions[2].events = <<"open", "message">>

\* C20 (as stated): an accepted submit appends a user message whose text is
\* the input text exactly as submitted, and the payload of its session is
\* that same text.
C20_TextAsSubmitted ==
    [][lastEvent' = "submit" =>
          /\ chatWindow'[Len(chatWindow') - 1] = UserMessage(input)
          /\ sessions'[Len(sessions')].userText = input
      ]_vars

\* C20 (amended): an accepted submit appends a user message whose text is
\* the input text with leading and trailing whitespace removed; the message
\* is never changed afterwards; and every payload sent on the session is
\* that same trimmed text.
C20_TextTrimmed ==
    [][/\ lastEvent' = "submit" =>
             /\ chatWindow'[Len(chatWindow') - 1] = UserMessage(Trim(input))
             /\ sessions'[Len(sessions')].userText = Trim(input)
       /\ \A s \in 1..Len(sessions') :
             /\ chatWindow'[sessions'[s].botMsg - 1] =
                   UserMessage(sessions'[s].userText)
             /\ \A i \in 1..Len(sessions'[s].sent) :
                   sessions'[s].sent[i] =
                      [question |-> sessions'[s].userText]
             /\ s \in SessionIds =>
                   sessions'[s].userText = sessions[s].userText
      ]_vars

C20_Witness ==
    \E s \in SessionIds :
       /\ sessions[s].userText = <<"a">>
       /\ chatWindow[sessions[s].botMsg - 1].html = <<"a">>
       /\ sessions[s].sent = <<[question |-> <<"a">>]>>
       /\ Closed(s)

\* C21: overlapping sessions do not interfere: a step in which a session
\* receives a chunk changes no message but that session's own bot message
\* and no other session, under every interleaving of the sessions' events;
\* and the accumulated text of every session stays the concatenation of
\* its own chunks in arrival order, which is what its bot message shows.
C21_SessionsDoNotInterfere ==
    [][/\ \A s \in SessionIds :
             Len(sessions'[s].delivered) > Len(sessions[s].delivered) =>
                /\ Len(chatWindow') = Len(chatWindow)
                /\ \A i \in 1..Len(chatWindow) :
                      i # sessions[s].botMsg => chatWindow'[i] = chatWindow[i]
                /\ \A t \in SessionIds :
                      t # s => sessions'[t] = sessions[t]
                /\ chatWindow'[sessions[s].botMsg].html =
                      Render(Flatten(sessions'[s].delivered))
       /\ \A s \in 1..Len(sessions') :
             sessions'[s].accumulatedText = Flatten(sessions'[s].delivered)
      ]_vars

\* two turns that overlap, each with a chunk of its own in its own message
C21_Witness ==
    /\ Len(sessions) = 2
    /\ Active(1) /\ Active(2)
    /\ sessions[1].delivered = << <<"<">> >>
    /\ sessions[2].delivered = << <<" ", "a">> >>
    /\ BotMsg(1).html = <<"<p>", "&lt;", "</p>">>
    /\ BotMsg(2).html = <<"<p>", "a", "</p>">>

\* the error notice stands somewhere in the markup
ContainsNotice(html) ==
    \E k \in 1..Len(html) :
       /\ k + Len(ErrorNotice) - 1 <= Len(html)
       /\ SubSeq(html, k, k + Len(ErrorNotice) - 1) = ErrorNotice

\* C22: once the error notice has been appended to a bot message it stays
\* in that message's markup: after every step, the message of a session
\* that has handled an error event contains the notice, and no step
\* removes the notice from a markup that contains it.
C22_NoticePersists ==
    [][\A s \in 1..Len(sessions') :
          LET html == chatWindow'[sessions'[s].botMsg].html IN
          /\ Has(sessions'[s].events, "error") => ContainsNotice(html)
          /\ (s \in SessionIds /\ ContainsNotice(BotMsg(s).html))
                => ContainsNotice(html)
      ]_vars

\* the close event that follows the error has been handled, and a chunk
\* of an overlapping session: the notice is still there
C22_Witness ==
    /\ Len(sessions) = 2
    /\ sessions[1].events = <<"open", "message", "error", "close">>
    /\ sessions[2].events = <<"open", "message">>
    /\ BotMsg(1).html = <<"<p>", "a", "</p>">> \o ErrorNotice

\* the fallback bot messages in a chat window
Fallbacks(children) ==
    {i \in 1..Len(children) :
        children[i] = AppendedBotMessage(FallbackText)}

\* C23: in ChatApp a turn whose channel raises an error event gets exactly
\* one fallback bot message, appended to the log behind that turn's
\* streamed bot message by the step that handles the error; the close
\* event that follows adds no second one, and a turn whose channel closes
\* without an error gets none: there are as many fallback messages as
\* errored sessions.
C23_OneFallbackPerError ==
    [][script = "app.js" =>
          /\ \A s \in SessionIds :
                /\ (~Errored(s) /\ Has(sessions'[s].events, "error")) =>
                      /\ Len(chatWindow') = Len(chatWindow) + 1
                      /\ Fallbacks(chatWindow') =
                            Fallbacks(chatWindow) \cup {Len(chatWindow')}
                      /\ Len(chatWindow') > sessions[s].botMsg
                /\ (Has(sessions'[s].events, "close") /\ ~Closed(s)) =>
                      /\ Len(chatWindow') = Len(chatWindow)
                      /\ Fallbacks(chatWindow') = Fallbacks(chatWindow)
          /\ Cardinality(Fallbacks(chatWindow')) =
                Cardinality({s \in 1..Len(sessions') :
                                Has(sessions'[s].events, "error")})
      ]_vars

\* one turn failed and was closed afterwards, the next one closed without
\* an error: one fallback message, between the two turns
C23_Witness ==
    /\ script = "app.js"
    /\ Len(sessions) = 2
    /\ sessions[1].events = <<"open", "error", "close">>
    /\ sessions[2].events = <<"open", "message", "close">>
    /\ Len(chatWindow) = 5
    /\ Fallbacks(chatWindow) = {3}

\* the await of the send handler of session s has completed
Returned(s) == sessions[s].handler = "returned"

\* C24: when every channel is eventually closed or errored, every accepted
\* submit finalizes: its session reaches closed or errored and the await
\* of its send handler completes; and the await never completes before
\* an error or close event of the session has been handled.
C24_EverySubmitFinalizes ==
    /\ [](\A s \in SessionIds : Returned(s) => Terminal(s))
    /\ \A s \in 1..MaxTurns :
          (s \in SessionIds) ~>
             (s \in SessionIds /\ Terminal(s) /\ Returned(s))

\* the top-level script after an error: the await completed with the
\* close event that followed
C24_Witness ==
    /\ script = "index.js"
    /\ \E s \in SessionIds :
          /\ sessions[s].events = <<"open", "message", "error", "close">>
          /\ sessions[s].promise = "resolved"
          /\ Returned(s)

=============================================================================
